---- MODULE Spec2Model ----
(***************************************************************************)
(* Model of taskschedule's render loop, draw() in src/taskschedule/main.py. *)
(* One tick of the loop is: read the terminal size, load the schedule,     *)
(* compare the snapshot with the previous one (clear on change), draw the  *)
(* header, walk the 24 hour buckets drawing filler rows and task rows,     *)
(* refresh, sleep.  The curses window is modelled by what is on it: the    *)
(* header cells and one record per screen line.                            *)
(***************************************************************************)
EXTENDS Integers, Sequences, FiniteSets, TLC

\* ---------------------------------------------------------------- bounds
\* The provider returns at most MaxTasks tasks in one query.
MaxTasks == 2

\* ------------------------------------------------------ program constants
NumHours == 24

ColorNormal == 1
ColorHour == 2
ColorAlternate == 3
ColorHeader == 4
ColorCurrentHour == 5
ColorCompletedAlternate == 6
ColorCompleted == 7
ColorActive == 8
ColorGlyph == 9
ColorCurrent == 10
ColorOverdue == 11

\* Column of the row fill, of the task id, and of the glyph.
FillColumn == 5
GlyphColumn == 3

\* task.end is None / task.project is None
NoEnd == -1
NoProject == "<None>"

headers == <<"", "", "ID", "Time", "Project", "Description">>

\* ------------------------------------------------------------ environment
At(h, m) == h * 60 + m

\* A project name of 55 characters: with it the 'Description' header starts
\* at column 70 or beyond, off a window of 60 columns, and it crosses the
\* right edge of a window of 80 columns, as do some of the descriptions.
LongProject == "Documentation and quarterly reporting for the committee"

\* The tasks the external store may hold, in provider order.
Pool == <<
  [task_id |-> 7, description |-> "Review", project |-> NoProject,
   start |-> At(14, 30), end |-> NoEnd, completed |-> FALSE, active |-> FALSE,
   glyph |-> "!"],
  [task_id |-> 0, description |-> "Standup", project |-> "Team",
   start |-> At(14, 0), end |-> At(14, 15), completed |-> FALSE,
   active |-> FALSE, glyph |-> "o"],
  [task_id |-> 12, description |-> "Mail", project |-> "Office",
   start |-> At(14, 0), end |-> NoEnd, completed |-> TRUE, active |-> FALSE,
   glyph |-> "x"],
  [task_id |-> 5, description |-> "Write report", project |-> LongProject,
   start |-> At(9, 0), end |-> NoEnd, completed |-> FALSE, active |-> TRUE,
   glyph |-> "o"],
  [task_id |-> 3, description |-> "Call", project |-> NoProject,
   start |-> At(16, 0), end |-> At(16, 45), completed |-> FALSE,
   active |-> FALSE, glyph |-> "!"] >>

RECURSIVE PickFromPool(_)
PickFromPool(S) ==
  IF S = {} THEN <<>>
  ELSE LET m == CHOOSE j \in S : \A k \in S : j <= k
       IN <<Pool[m]>> \o PickFromPool(S \ {m})

\* What a provider query can return: any MaxTasks-bounded selection.
ProviderOutputs ==
  { PickFromPool(S) : S \in { T \in SUBSET (1..Len(Pool)) : Cardinality(T) <= MaxTasks } }

\* Wall-clock instants (minutes since midnight) the clock passes through.
Times == << At(14, 10), At(15, 5) >>

\* Sizes <<lines, columns>> the terminal can have: one with fewer lines than
\* a day has hours and narrower than the header of a long project name, one
\* that holds every layout.
TermSizes == { <<12, 60>>, <<30, 80>> }

VARIABLES
  pc,                \* position of draw() in its loop
  hide_empty,        \* argument hide_empty
  hide_projects,     \* argument hide_projects
  terminal,          \* size of the terminal the program runs on
  window,            \* size of stdscr
  max_y, max_x,      \* stdscr.getmaxyx() of this tick
  tasks,             \* schedule.tasks after load_tasks
  provider_failed,   \* whether this tick's provider query failed
  as_dict,           \* snapshot of this tick
  previous_as_dict,  \* snapshot retained from the preceding tick
  past_first_task, alternate, current_line,
  i, ii,             \* loop indices (hour, position in the bucket)
  clock,             \* index into Times: the wall clock
  header,            \* header cells on the window
  screen,            \* lines 1.. of the window
  rows,              \* rows emitted in this tick, in order
  clears,            \* stdscr.clear() calls in this tick
  refreshes          \* stdscr.refresh() calls in this tick

vars == << pc, hide_empty, hide_projects, terminal, window, max_y, max_x, tasks, provider_failed,
           as_dict, previous_as_dict, past_first_task, alternate, current_line,
           i, ii, clock, header, screen, rows, clears, refreshes >>

now == Times[clock]

\* ------------------------------------------- Schedule and ScheduledTask
\* ScheduledTask.overdue(), called at instant t
overdue(task, t) == task.start < t /\ ~task.completed

\* ScheduledTask.should_be_active(next_task), called at instant t
should_be_active(task, next_task, t) ==
  ~task.active /\ task.start <= t /\ t < next_task.start

Pad2(n) == IF n < 10 THEN "0" \o ToString(n) ELSE ToString(n)

\* strftime('%H:%M') of an instant; also ScheduledTask.start_time
HHMM(t) == Pad2(t \div 60) \o ":" \o Pad2(t % 60)

start_time(task) == HHMM(task.start)

\* sorted(..., key=start) is stable: t goes behind every task not later than it
InsertByStart(s, t) ==
  LET k == Cardinality({ j \in 1..Len(s) : s[j].start <= t.start })
  IN SubSeq(s, 1, k) \o <<t>> \o SubSeq(s, k + 1, Len(s))

RECURSIVE SortByStart(_)
SortByStart(s) ==
  IF s = <<>> THEN <<>>
  ELSE InsertByStart(SortByStart(SubSeq(s, 1, Len(s) - 1)), s[Len(s)])

\* Schedule.as_dict(): hour -> tasks of that hour, ordered by start
AsDict(ts) ==
  [ h \in 0..(NumHours - 1) |->
      SortByStart(SelectSeq(ts, LAMBDA t : t.start \div 60 = h)) ]

\* max(...) over a non-empty set of widths
MaxIn(S) == CHOOSE w \in S : \A v \in S : v <= w

project_text(task) == IF task.project = NoProject THEN "" ELSE task.project

\* Variant of formatted_time: a range is rendered for every task.
formatted_time_always_range(task) ==
  start_time(task) \o "-" \o HHMM(IF task.end = NoEnd THEN task.start ELSE task.end)

formatted_time(task) ==
  IF task.end = NoEnd THEN start_time(task)
  ELSE start_time(task) \o "-" \o HHMM(task.end)

id_text(task) == IF task.task_id # 0 THEN ToString(task.task_id) ELSE ""

\* Schedule.get_column_offsets(): indices 0..4 of the Python list are 1..5 here
GetColumnOffsets(ts) ==
  LET widths(W(_), least) == { W(ts[k]) : k \in 1..Len(ts) } \cup { least }
      o1 == FillColumn
      o2 == o1 + MaxIn(widths(LAMBDA t : Len(id_text(t)), Len(headers[3]))) + 1
      o3 == o2 + MaxIn(widths(LAMBDA t : Len(formatted_time(t)), Len(headers[4]))) + 1
      o4 == o3 + MaxIn(widths(LAMBDA t : Len(project_text(t)), Len(headers[5]))) + 1
  IN << 0, o1, o2, o3, o4 >>

\* ------------------------------------------------------------- the window
\* ' ' * n
RECURSIVE Blanks(_)
Blanks(n) == IF n <= 0 THEN "" ELSE " " \o Blanks(n - 1)

\* stdscr.addstr(y, x, s, ...) raises curses.error when the position is off
\* the window, or when the text runs into the window's last cell.
AddstrRaises(y, x, s) ==
  \/ y >= window[1]
  \/ x >= window[2]
  \/ y * window[2] + x + Len(s) >= window[1] * window[2]

\* ... and it has written the text unless the position is off the window.
AddstrWrites(y, x, s) == y < window[1] /\ x < window[2]

\* The calls of cs up to the first one that raises.
FirstRaise(cs) ==
  IF \E k \in 1..Len(cs) : AddstrRaises(cs[k].y, cs[k].x, cs[k].s)
  THEN CHOOSE k \in 1..Len(cs) :
         /\ AddstrRaises(cs[k].y, cs[k].x, cs[k].s)
         /\ \A j \in 1..(k - 1) : ~AddstrRaises(cs[j].y, cs[j].x, cs[j].s)
  ELSE Len(cs) + 1

Written(cs) ==
  LET k == FirstRaise(cs)
  IN IF k <= Len(cs) /\ AddstrWrites(cs[k].y, cs[k].x, cs[k].s)
     THEN SubSeq(cs, 1, k) ELSE SubSeq(cs, 1, k - 1)

\* The first n characters of s.
Left(s, n) == IF Len(s) <= n THEN s ELSE SubSeq(s, 1, IF n > 0 THEN n ELSE 0)

\* The characters of s after the first n.
Right(s, n) == IF Len(s) <= n THEN "" ELSE SubSeq(s, n + 1, Len(s))

\* A line of the window: what the calls addressed to it have written, and in
\* wrap the text that ran over from the line above and still shows.
BlankLine ==
  [label |-> "", labelColor |-> 0, glyph |-> "", fill |-> 0, width |-> 0,
   cells |-> <<>>, wrap |-> {}]

\* The pieces of the texts segs that the columns a .. b - 1 do not cover.
Uncover(segs, a, b) ==
  { [x |-> g.x, s |-> Left(g.s, a - g.x), color |-> g.color] :
      g \in { h \in segs : h.x < a } }
  \cup
  { [x |-> IF b > g.x THEN b ELSE g.x,
     s |-> IF b > g.x THEN Right(g.s, b - g.x) ELSE g.s,
     color |-> g.color] :
      g \in { h \in segs : h.x + Len(h.s) > b } }

\* Effect of one written call on the line it addresses: the text up to the
\* right edge of the window, over whatever was there.
WriteCall(line, c) ==
  LET t == Left(c.s, window[2] - c.x)
      w == CASE c.cell = "label" ->
                  [line EXCEPT !.label = t, !.labelColor = c.color]
             [] c.cell = "fill" ->
                  [line EXCEPT !.fill = c.color, !.width = Len(t),
                               !.cells = <<>>]
             [] c.cell = "glyph" -> [line EXCEPT !.glyph = t]
             [] OTHER ->
                  [line EXCEPT !.cells = Append(@, <<c.cell, c.x, t, c.color>>)]
  IN [w EXCEPT !.wrap = Uncover(@, c.x, c.x + Len(t))]

RECURSIVE WriteCalls(_, _)
WriteCalls(line, cs) ==
  IF cs = <<>> THEN line ELSE WriteCalls(WriteCall(line, cs[1]), Tail(cs))

\* Text that crossed the right edge goes on at column 0 of the next line y,
\* for as many lines as it takes and the window has.
RECURSIVE WrapOnto(_, _, _, _)
WrapOnto(scr, y, s, color) ==
  IF s = "" \/ y >= window[1] \/ y > Len(scr) + 1 THEN scr
  ELSE LET here == Left(s, window[2])
           line == IF y <= Len(scr) THEN scr[y] ELSE BlankLine
           over == [line EXCEPT !.wrap =
                      Uncover(@, 0, Len(here))
                      \cup { [x |-> 0, s |-> here, color |-> color] }]
           scr1 == IF y <= Len(scr) THEN [scr EXCEPT ![y] = over]
                   ELSE Append(scr, over)
       IN WrapOnto(scr1, y + 1, Right(s, window[2]), color)

\* The window after the calls cs, all addressed to line y >= 1.
RECURSIVE ScreenAfter(_, _, _)
ScreenAfter(scr, y, cs) ==
  IF cs = <<>> THEN scr
  ELSE LET c == cs[1]
           scr1 == IF y <= Len(scr) THEN [scr EXCEPT ![y] = WriteCall(@, c)]
                   ELSE Append(scr, WriteCall(BlankLine, c))
           scr2 == WrapOnto(scr1, y + 1, Right(c.s, window[2] - c.x), c.color)
       IN ScreenAfter(scr2, y, Tail(cs))

\* The header line after the calls cs, all addressed to line 0.
RECURSIVE HeaderAfter(_, _)
HeaderAfter(hdr, cs) ==
  IF cs = <<>> THEN hdr
  ELSE LET c == cs[1]
       IN HeaderAfter({ h \in hdr : h.x # c.x }
                      \cup { [x |-> c.x, s |-> Left(c.s, window[2] - c.x)] },
                      Tail(cs))

\* Lines 1.. of the window after the header calls cs: what crossed the right
\* edge of line 0 goes on at line 1.
RECURSIVE HeaderWraps(_, _)
HeaderWraps(scr, cs) ==
  IF cs = <<>> THEN scr
  ELSE HeaderWraps(WrapOnto(scr, 1, Right(cs[1].s, window[2] - cs[1].x),
                            cs[1].color),
                   Tail(cs))

\* A line of the window cut at column `columns`: the label starts at column
\* 0, the glyph is at GlyphColumn, the fill starts at FillColumn, a cell at
\* its own column.
CutLine(line, columns) ==
  LET kept == SelectSeq(line.cells, LAMBDA c : c[2] < columns)
      narrow == IF line.width <= columns - FillColumn THEN line.width
                ELSE IF columns > FillColumn THEN columns - FillColumn ELSE 0
  IN [line EXCEPT
        !.label = Left(@, columns),
        !.glyph = IF GlyphColumn < columns THEN @ ELSE "",
        !.width = narrow,
        !.cells = [ n \in 1..Len(kept) |->
                     << kept[n][1], kept[n][2],
                        Left(kept[n][3], columns - kept[n][2]), kept[n][4] >> ],
        !.wrap = { [g EXCEPT !.s = Left(@, columns - g.x)] :
                     g \in { h \in @ : h.x < columns } }]

\* stdscr taking the size <<lines, columns>>: what lies inside the new size
\* stays, what lies outside is lost. Line 0 is the header, screen[y] line y.
ResizedScreen(scr, size) ==
  LET n == IF Len(scr) <= size[1] - 1 THEN Len(scr) ELSE size[1] - 1
  IN [ y \in 1..n |-> CutLine(scr[y], size[2]) ]

ResizedHeader(hdr, size) ==
  { [x |-> c.x, s |-> Left(c.s, size[2] - c.x)] : c \in { d \in hdr : d.x < size[2] } }

\* --------------------------------------------------------- classification
\* Variant of Classify: the overdue test comes first.
Classify_overdue_first(active, is_current_task, is_overdue, completed, alt) ==
  IF is_overdue /\ ~completed THEN ColorOverdue
  ELSE IF active THEN ColorActive
  ELSE IF is_current_task THEN ColorCurrent
  ELSE IF alt
       THEN (IF completed THEN ColorCompleted ELSE ColorNormal)
       ELSE (IF completed THEN ColorCompletedAlternate ELSE ColorAlternate)

\* lines 98-114: the colour pair of a task row
Classify(active, is_current_task, is_overdue, completed, alt) ==
  IF active THEN ColorActive
  ELSE IF is_current_task THEN ColorCurrent
  ELSE IF is_overdue /\ ~completed THEN ColorOverdue
  ELSE IF alt
       THEN (IF completed THEN ColorCompleted ELSE ColorNormal)
       ELSE (IF completed THEN ColorCompletedAlternate ELSE ColorAlternate)

\* lines 69-72: the colour pair of a filler row
FillerColor(alt) == IF alt THEN ColorNormal ELSE ColorAlternate

\* int(hour) of line 131
ParseInt(s) == CHOOSE n \in 0..(NumHours - 1) : ToString(n) = s

\* Variant of HourColor: the hour is the one read when draw() started.
HourColor_cached(hour) ==
  LET current_hour == Times[1] \div 60
  IN IF hour = current_hour THEN ColorCurrentHour ELSE ColorHour

\* lines 78-84 and 129-136: colour of an hour label
HourColor(hour) ==
  LET current_hour == now \div 60
  IN IF hour = current_hour THEN ColorCurrentHour ELSE ColorHour

\* ------------------------------------------------------------------ draw()
Init ==
  /\ pc = "getmaxyx"
  /\ hide_empty \in BOOLEAN
  /\ hide_projects \in BOOLEAN
  /\ terminal \in TermSizes
  /\ window = terminal
  /\ max_y = 0 /\ max_x = 0
  /\ tasks = <<>>
  /\ provider_failed = FALSE
  /\ as_dict = <<>>
  /\ previous_as_dict = <<>>
  /\ past_first_task = FALSE
  /\ alternate = TRUE
  /\ current_line = 1
  /\ i = 0 /\ ii = 0
  /\ clock = 1
  /\ header = {}
  /\ screen = <<>>
  /\ rows = <<>>
  /\ clears = 0
  /\ refreshes = 0

\* line 35: max_y, max_x = stdscr.getmaxyx(); a new tick starts
GetMaxYX ==
  /\ pc = "getmaxyx"
  /\ max_y' = window[1] /\ max_x' = window[2]
  /\ rows' = <<>> /\ clears' = 0 /\ refreshes' = 0
  /\ provider_failed' = FALSE
  /\ pc' = "load"
  /\ UNCHANGED << hide_empty, hide_projects, terminal, window, tasks, as_dict,
                  previous_as_dict, past_first_task, alternate, current_line,
                  i, ii, clock, header, screen >>

\* line 37: schedule.load_tasks(...), the provider answers
LoadTasks ==
  /\ pc = "load"
  /\ \E out \in ProviderOutputs : tasks' = out
  /\ pc' = "diff"
  /\ UNCHANGED << hide_empty, hide_projects, terminal, window, max_y, max_x, provider_failed,
                  as_dict, previous_as_dict, past_first_task, alternate,
                  current_line, i, ii, clock, header, screen, rows, clears,
                  refreshes >>

\* line 37: schedule.load_tasks(...), the provider fails: no tasks this tick
LoadTasksProviderError ==
  /\ pc = "load"
  /\ tasks' = <<>>
  /\ provider_failed' = TRUE
  /\ pc' = "diff"
  /\ UNCHANGED << hide_empty, hide_projects, terminal, window, max_y, max_x, as_dict,
                  previous_as_dict, past_first_task, alternate, current_line,
                  i, ii, clock, header, screen, rows, clears, refreshes >>

\* Variant of DiffAndClear: clears without comparing the snapshots.
DiffAndClear_always ==
  /\ pc = "diff"
  /\ as_dict' = AsDict(tasks)
  /\ header' = {} /\ screen' = <<>> /\ clears' = clears + 1
  /\ previous_as_dict' = as_dict'
  /\ pc' = "headers"
  /\ UNCHANGED << hide_empty, hide_projects, terminal, window, max_y, max_x, tasks,
                  provider_failed, past_first_task, alternate, current_line,
                  i, ii, clock, rows, refreshes >>

\* lines 39-44: snapshot, clear when it changed, retain it
DiffAndClear ==
  /\ pc = "diff"
  /\ as_dict' = AsDict(tasks)
  /\ IF as_dict' # previous_as_dict
     THEN header' = {} /\ screen' = <<>> /\ clears' = clears + 1
     ELSE UNCHANGED << header, screen, clears >>
  /\ previous_as_dict' = as_dict'
  /\ pc' = "headers"
  /\ UNCHANGED << hide_empty, hide_projects, terminal, window, max_y, max_x, tasks,
                  provider_failed, past_first_task, alternate, current_line,
                  i, ii, clock, rows, refreshes >>

\* lines 53-58: the addstr calls that draw the header line
HeaderCalls ==
  LET offsets == GetColumnOffsets(tasks)
      H(x, s) == [cell |-> "header", y |-> 0, x |-> x, s |-> s,
                  color |-> ColorHeader]
  IN << H(offsets[2], headers[3]), H(offsets[3], headers[4]),
        H(offsets[4], headers[5]) >>
     \o (IF ~hide_projects THEN << H(offsets[5], headers[6]) >> ELSE <<>>)

\* Variant of DrawHeaders: cursor, striping and first-task flag carry over
\* from the preceding tick.
DrawHeaders_no_reset ==
  /\ pc = "headers"
  /\ LET cs == HeaderCalls
         w == Written(cs)
     IN /\ header' = HeaderAfter(header, w)
        /\ screen' = HeaderWraps(screen, w)
        /\ IF FirstRaise(cs) <= Len(cs)
           THEN pc' = "raised" /\ UNCHANGED << i, ii >>
           ELSE pc' = "hours" /\ i' = 0 /\ ii' = 0
  /\ UNCHANGED << hide_empty, hide_projects, terminal, window, max_y, max_x, tasks,
                  provider_failed, as_dict, previous_as_dict, clock,
                  rows, clears, refreshes, past_first_task, alternate,
                  current_line >>

\* lines 47-63: draw the headers, start the walk over the hours
DrawHeaders ==
  /\ pc = "headers"
  /\ LET cs == HeaderCalls
         w == Written(cs)
     IN /\ header' = HeaderAfter(header, w)
        /\ screen' = HeaderWraps(screen, w)
        /\ IF FirstRaise(cs) <= Len(cs)
           THEN /\ pc' = "raised"
                /\ UNCHANGED << past_first_task, alternate, current_line,
                                i, ii >>
           ELSE /\ past_first_task' = FALSE
                /\ alternate' = TRUE
                /\ current_line' = 1
                /\ i' = 0 /\ ii' = 0
                /\ pc' = "hours"
  /\ UNCHANGED << hide_empty, hide_projects, terminal, window, max_y, max_x, tasks,
                  provider_failed, as_dict, previous_as_dict, clock,
                  rows, clears, refreshes >>

\* Variant of FillerCalls: the fill assumes a window of 80 columns.
FillerCalls_fixed_width ==
  << [cell |-> "fill", y |-> current_line, x |-> FillColumn,
      s |-> Blanks(80 - 5), color |-> FillerColor(alternate)],
     [cell |-> "label", y |-> current_line, x |-> 0, s |-> ToString(i),
      color |-> HourColor(i)] >>

\* lines 69-84: the addstr calls of a filler row
FillerCalls ==
  << [cell |-> "fill", y |-> current_line, x |-> FillColumn,
      s |-> Blanks(max_x - 5), color |-> FillerColor(alternate)],
     [cell |-> "label", y |-> current_line, x |-> 0, s |-> ToString(i),
      color |-> HourColor(i)] >>

\* Variant of ShowsFiller: only the show-all option counts.
ShowsFiller_option_only == ~hide_empty

\* Variant of ShowsFiller: every empty hour gets a row.
ShowsFiller_always == TRUE

\* line 68: an empty hour gets a row between tasks or when all hours are shown
ShowsFiller == past_first_task \/ ~hide_empty

\* Variant of EmptyHourFiller: the row cursor stays where it is.
EmptyHourFiller_no_advance ==
  /\ pc = "hours" /\ i < NumHours
  /\ as_dict[i] = <<>>
  /\ ShowsFiller
  /\ LET cs == FillerCalls
     IN /\ screen' = ScreenAfter(screen, current_line, Written(cs))
        /\ IF FirstRaise(cs) <= Len(cs)
           THEN /\ pc' = "raised"
                /\ UNCHANGED << rows, alternate, i >>
           ELSE /\ rows' = Append(rows, [kind |-> "filler", line |-> current_line,
                                          hour |-> i, alt |-> alternate,
                                          at |-> clock, calls |-> cs])
                /\ alternate' = ~alternate
                /\ i' = i + 1
                /\ pc' = "hours"
  /\ UNCHANGED << hide_empty, hide_projects, terminal, window, max_y, max_x, tasks,
                  provider_failed, as_dict, previous_as_dict, past_first_task,
                  current_line, ii, clock, header, clears, refreshes >>

\* lines 64-87: an empty hour that gets its filler row
EmptyHourFiller ==
  /\ pc = "hours" /\ i < NumHours
  /\ as_dict[i] = <<>>
  /\ ShowsFiller
  /\ LET cs == FillerCalls
     IN /\ screen' = ScreenAfter(screen, current_line, Written(cs))
        /\ IF FirstRaise(cs) <= Len(cs)
           THEN /\ pc' = "raised"
                /\ UNCHANGED << rows, current_line, alternate, i >>
           ELSE /\ rows' = Append(rows, [kind |-> "filler", line |-> current_line,
                                          hour |-> i, alt |-> alternate,
                                          at |-> clock, calls |-> cs])
                /\ current_line' = current_line + 1
                /\ alternate' = ~alternate
                /\ i' = i + 1
                /\ pc' = "hours"
  /\ UNCHANGED << hide_empty, hide_projects, terminal, window, max_y, max_x, tasks,
                  provider_failed, as_dict, previous_as_dict, past_first_task,
                  ii, clock, header, clears, refreshes >>

\* Variant of EmptyHourSkip: the hidden hour still advances the striping.
EmptyHourSkip_flips ==
  /\ pc = "hours" /\ i < NumHours
  /\ as_dict[i] = <<>>
  /\ ~ShowsFiller
  /\ i' = i + 1
  /\ alternate' = ~alternate
  /\ UNCHANGED << pc, hide_empty, hide_projects, terminal, window, max_y, max_x, tasks,
                  provider_failed, as_dict, previous_as_dict, past_first_task,
                  current_line, ii, clock, header, screen, rows, clears,
                  refreshes >>

\* lines 64-68: an empty hour before the first task, hidden
EmptyHourSkip ==
  /\ pc = "hours" /\ i < NumHours
  /\ as_dict[i] = <<>>
  /\ ~ShowsFiller
  /\ i' = i + 1
  /\ UNCHANGED << pc, hide_empty, hide_projects, terminal, window, max_y, max_x, tasks,
                  provider_failed, as_dict, previous_as_dict, past_first_task,
                  alternate, current_line, ii, clock, header, screen, rows,
                  clears, refreshes >>

\* Variant of IsCurrentTask: asks the next task about this one.
IsCurrentTask_swapped(bucket, pos) ==
  IF pos + 1 >= Len(bucket) THEN FALSE
  ELSE should_be_active(bucket[pos + 2], bucket[pos + 1], now)

\* Variant of IsCurrentTask: the last task of a bucket looks ahead to the
\* first task of the next non-empty bucket.
IsCurrentTask_crosses_hours(bucket, pos) ==
  IF pos + 1 >= Len(bucket)
  THEN \E h \in (i + 1)..(NumHours - 1) :
         /\ as_dict[h] # <<>>
         /\ \A g \in (i + 1)..(h - 1) : as_dict[g] = <<>>
         /\ should_be_active(bucket[pos + 1], as_dict[h][1], now)
  ELSE should_be_active(bucket[pos + 1], bucket[pos + 2], now)

\* lines 89-95: whether the task at position ii is the implicit current task
IsCurrentTask(bucket, pos) ==
  IF pos + 1 >= Len(bucket) THEN FALSE
  ELSE should_be_active(bucket[pos + 1], bucket[pos + 2], now)

\* Variant of TaskCalls: the hour is drawn on every row of a bucket.
TaskCalls_label_every_row(task, color) ==
  LET offsets == GetColumnOffsets(tasks)
      hour == ToString(i)
      C(cell, x, s, col) == [cell |-> cell, y |-> current_line, x |-> x,
                             s |-> s, color |-> col]
  IN << C("label", 0, hour, HourColor(ParseInt(hour))),
        C("fill", FillColumn, Blanks(max_x - 5), color),
        C("glyph", GlyphColumn, task.glyph, ColorGlyph) >>
     \o (IF task.task_id # 0
         THEN << C("id", 5, ToString(task.task_id), color) >> ELSE <<>>)
     \o << C("time", offsets[3], formatted_time(task), color) >>
     \o (IF ~hide_projects
         THEN << C("project", offsets[4], project_text(task), color),
                 C("description", offsets[5], task.description, color) >>
         ELSE << C("description", offsets[4], task.description, color) >>)

\* Variant of TaskCalls: the id is written whatever its value.
TaskCalls_always_id(task, color) ==
  LET offsets == GetColumnOffsets(tasks)
      hour == IF ii = 0 THEN ToString(i) ELSE ""
      C(cell, x, s, col) == [cell |-> cell, y |-> current_line, x |-> x,
                             s |-> s, color |-> col]
  IN (IF hour # "" THEN << C("label", 0, hour, HourColor(ParseInt(hour))) >>
      ELSE <<>>)
     \o << C("fill", FillColumn, Blanks(max_x - 5), color),
           C("glyph", GlyphColumn, task.glyph, ColorGlyph),
           C("id", 5, ToString(task.task_id), color),
           C("time", offsets[3], formatted_time(task), color) >>
     \o (IF ~hide_projects
         THEN << C("project", offsets[4], project_text(task), color),
                 C("description", offsets[5], task.description, color) >>
         ELSE << C("description", offsets[4], task.description, color) >>)

\* lines 98-160: the addstr calls of the row of one task
TaskCalls(task, color) ==
  LET offsets == GetColumnOffsets(tasks)
      hour == IF ii = 0 THEN ToString(i) ELSE ""
      C(cell, x, s, col) == [cell |-> cell, y |-> current_line, x |-> x,
                             s |-> s, color |-> col]
  IN (IF hour # "" THEN << C("label", 0, hour, HourColor(ParseInt(hour))) >>
      ELSE <<>>)
     \o << C("fill", FillColumn, Blanks(max_x - 5), color),
           C("glyph", GlyphColumn, task.glyph, ColorGlyph) >>
     \o (IF task.task_id # 0
         THEN << C("id", 5, ToString(task.task_id), color) >> ELSE <<>>)
     \o << C("time", offsets[3], formatted_time(task), color) >>
     \o (IF ~hide_projects
         THEN << C("project", offsets[4], project_text(task), color),
                 C("description", offsets[5], task.description, color) >>
         ELSE << C("description", offsets[4], task.description, color) >>)

\* lines 89-163: the row of the task at position ii of bucket i
DrawTask ==
  /\ pc = "hours" /\ i < NumHours
  /\ as_dict[i] # <<>>
  /\ LET bucket == as_dict[i]
         task == bucket[ii + 1]
         is_current_task == IsCurrentTask(bucket, ii)
         color == Classify(task.active, is_current_task, overdue(task, now),
                           task.completed, alternate)
         cs == TaskCalls(task, color)
     IN /\ screen' = ScreenAfter(screen, current_line, Written(cs))
        /\ past_first_task' = TRUE
        /\ IF FirstRaise(cs) <= Len(cs)
           THEN /\ pc' = "raised"
                /\ UNCHANGED << rows, current_line, alternate, i, ii >>
           ELSE /\ rows' = Append(rows, [kind |-> "task", line |-> current_line,
                                          hour |-> i, alt |-> alternate,
                                          at |-> clock, calls |-> cs,
                                          index |-> ii,
                                          task |-> task, color |-> color,
                                          is_current_task |-> is_current_task,
                                          is_overdue |-> overdue(task, now)])
                /\ current_line' = current_line + 1
                /\ alternate' = ~alternate
                /\ IF ii + 1 < Len(bucket)
                   THEN ii' = ii + 1 /\ i' = i
                   ELSE ii' = 0 /\ i' = i + 1
                /\ pc' = "hours"
  /\ UNCHANGED << hide_empty, hide_projects, terminal, window, max_y, max_x, tasks,
                  provider_failed, as_dict, previous_as_dict, clock, header,
                  clears, refreshes >>

\* Variant of HoursDone: the loop goes to sleep without refreshing.
HoursDone_no_refresh ==
  /\ pc = "hours" /\ i = NumHours
  /\ pc' = "sleep"
  /\ UNCHANGED << hide_empty, hide_projects, terminal, window, max_y, max_x, tasks,
                  provider_failed, as_dict, previous_as_dict, past_first_task,
                  alternate, current_line, i, ii, clock, header, screen, rows,
                  clears, refreshes >>

\* line 64: range(24) is exhausted
HoursDone ==
  /\ pc = "hours" /\ i = NumHours
  /\ pc' = "refresh"
  /\ UNCHANGED << hide_empty, hide_projects, terminal, window, max_y, max_x, tasks,
                  provider_failed, as_dict, previous_as_dict, past_first_task,
                  alternate, current_line, i, ii, clock, header, screen, rows,
                  clears, refreshes >>

\* line 165: stdscr.refresh(); curses takes over the size of the terminal
\* here, and nowhere else in the loop
Refresh ==
  /\ pc = "refresh"
  /\ refreshes' = refreshes + 1
  /\ window' = terminal
  /\ screen' = ResizedScreen(screen, terminal)
  /\ header' = ResizedHeader(header, terminal)
  /\ pc' = "sleep"
  /\ UNCHANGED << hide_empty, hide_projects, terminal, max_y, max_x, tasks,
                  provider_failed, as_dict, previous_as_dict, past_first_task,
                  alternate, current_line, i, ii, clock, rows, clears >>

\* line 166: time.sleep(refresh_rate), then back to the top of the loop
Sleep ==
  /\ pc = "sleep"
  /\ pc' = "getmaxyx"
  /\ UNCHANGED << hide_empty, hide_projects, terminal, window, max_y, max_x, tasks,
                  provider_failed, as_dict, previous_as_dict, past_first_task,
                  alternate, current_line, i, ii, clock, header, screen, rows,
                  clears, refreshes >>

\* The wall clock moves on, at any point of the loop.
ClockAdvance ==
  /\ pc # "raised"
  /\ clock < Len(Times)
  /\ clock' = clock + 1
  /\ UNCHANGED << pc, hide_empty, hide_projects, terminal, window, max_y, max_x, tasks,
                  provider_failed, as_dict, previous_as_dict, past_first_task,
                  alternate, current_line, i, ii, header, screen, rows, clears,
                  refreshes >>

\* The user resizes the terminal. The program meets the terminal's size in
\* refresh() only, so a resize during the draw is taken right before the
\* refresh and a resize between two ticks during the sleep.
Resize ==
  /\ pc \in {"refresh", "sleep"}
  /\ \E size \in TermSizes \ {terminal} : terminal' = size
  /\ UNCHANGED << pc, hide_empty, hide_projects, window, max_y, max_x, tasks,
                  provider_failed, as_dict, previous_as_dict, past_first_task,
                  alternate, current_line, i, ii, clock, header, screen, rows,
                  clears, refreshes >>

Next ==
  \/ GetMaxYX
  \/ LoadTasks
  \/ LoadTasksProviderError
  \/ DiffAndClear
  \/ DrawHeaders
  \/ EmptyHourFiller
  \/ EmptyHourSkip
  \/ DrawTask
  \/ HoursDone
  \/ Refresh
  \/ Sleep
  \/ ClockAdvance
  \/ Resize

Spec == Init /\ [][Next]_vars

\* ------------------------------------------------------------------ claims
TaskRows == { k \in 1..Len(rows) : rows[k].kind = "task" }

\* C1: in every tick the screen is cleared exactly once when the snapshot
\* differs from the one retained from the preceding tick and not at all when
\* they are equal, and the retained snapshot is replaced by the current one
\* either way; nothing else clears or touches the retained snapshot.
C1_DiffGating ==
  [][ /\ (pc = "diff" /\ pc' # "diff") =>
           /\ clears' = (IF AsDict(tasks) # previous_as_dict THEN 1 ELSE 0)
           /\ (AsDict(tasks) # previous_as_dict => screen' = <<>> /\ header' = {})
           /\ (AsDict(tasks) = previous_as_dict => screen' = screen /\ header' = header)
           /\ previous_as_dict' = AsDict(tasks)
      /\ (pc # "diff" => previous_as_dict' = previous_as_dict)
      /\ (pc \notin {"diff", "getmaxyx"} => clears' = clears) ]_vars

\* A later tick found its non-empty snapshot unchanged and issued no clear.
C1_Witness ==
  /\ pc = "headers" /\ clears = 0
  /\ tasks # <<>> /\ screen # <<>>

ZebraColor(completed, alt) ==
  CASE completed /\ alt -> ColorCompleted
    [] completed /\ ~alt -> ColorCompletedAlternate
    [] ~completed /\ alt -> ColorNormal
    [] OTHER -> ColorAlternate

Precedence(active, cur, od, completed, alt, color) ==
  /\ color \in { ColorActive, ColorCurrent, ColorOverdue, ColorCompleted,
                 ColorCompletedAlternate, ColorNormal, ColorAlternate }
  /\ active => color = ColorActive
  /\ (~active /\ cur) => color = ColorCurrent
  /\ (~active /\ ~cur /\ od /\ ~completed) => color = ColorOverdue
  /\ (~active /\ ~cur /\ ~(od /\ ~completed)) => color = ZebraColor(completed, alt)

\* C2: the colour of a task row follows the first-match precedence ACTIVE,
\* CURRENT, OVERDUE, then COMPLETED/NORMAL in the shade the alternation flag
\* selects; this holds for every combination of the five inputs and for every
\* task row drawn, and the alternation flag has no say in the first three.
C2_Classification ==
  /\ \A a, c, o, d, alt \in BOOLEAN :
       /\ Precedence(a, c, o, d, alt, Classify(a, c, o, d, alt))
       /\ (a \/ c \/ (o /\ ~d)) => Classify(a, c, o, d, alt) = Classify(a, c, o, d, ~alt)
  /\ \A k \in TaskRows :
       Precedence(rows[k].task.active, rows[k].is_current_task,
                  rows[k].is_overdue, rows[k].task.completed, rows[k].alt,
                  rows[k].color)

\* An active task that is also overdue was drawn, as ACTIVE.
C2_Witness ==
  \E k \in TaskRows :
    /\ rows[k].task.active /\ rows[k].is_overdue
    /\ rows[k].color = ColorActive

\* C3: a task row of a task that is not active and has a successor in its
\* bucket is CURRENT exactly when should_be_active(successor) held at the
\* time the row was drawn; overdue or completed does not matter.
C3_CurrentByLookahead ==
  \A k \in TaskRows :
    LET r == rows[k]
        bucket == as_dict[r.hour]
    IN (~r.task.active /\ r.index + 1 < Len(bucket)) =>
         ( r.color = ColorCurrent <=>
             should_be_active(r.task, bucket[r.index + 2], Times[r.at]) )

\* An overdue task was drawn as CURRENT because of its successor.
C3_Witness ==
  \E k \in TaskRows :
    /\ ~rows[k].task.active /\ rows[k].is_overdue
    /\ rows[k].index + 1 < Len(as_dict[rows[k].hour])
    /\ rows[k].color = ColorCurrent

\* The walk over the hours has begun in this tick (and may have ended).
\* The header line raised: lines 61-63 were not reached in this tick.
HeaderRaised == pc = "raised" /\ FirstRaise(HeaderCalls) <= Len(HeaderCalls)

\* The window has the size this tick read: no resize was taken over since.
SameWindow == window = <<max_y, max_x>>

\* The walk over the hours has begun, and the window still is what the tick
\* drew on.
InWalk ==
  \/ pc \in {"hours", "refresh"}
  \/ pc = "sleep" /\ SameWindow
  \/ pc = "raised" /\ ~HeaderRaised

\* The walk is over, and the window still is what the tick drew on.
WalkOver == pc = "refresh" \/ (pc = "sleep" /\ SameWindow)

RowsOfHour(h) == SelectSeq(rows, LAMBDA r : r.hour = h)

NonEmptyHours == { h \in 0..(NumHours - 1) : as_dict[h] # <<>> }

\* C4: an empty bucket the walk has passed has exactly one row, a filler, when
\* hide_empty is off or a task was drawn in an earlier hour of this tick, and
\* no row otherwise; a non-empty bucket has exactly its tasks' rows, in
\* order, and no filler; the row cursor and the alternation flag have moved
\* once per row and not otherwise.
C4_FillerRule ==
  InWalk =>
    /\ \A h \in 0..(i - 1) :
         LET rs == RowsOfHour(h)
         IN IF as_dict[h] = <<>>
            THEN IF ~hide_empty \/ (\E g \in 0..(h - 1) : as_dict[g] # <<>>)
                 THEN Len(rs) = 1 /\ rs[1].kind = "filler"
                 ELSE Len(rs) = 0
            ELSE /\ Len(rs) = Len(as_dict[h])
                 /\ \A k \in 1..Len(rs) :
                      rs[k].kind = "task" /\ rs[k].task = as_dict[h][k]
    /\ current_line = 1 + Len(rows)
    /\ alternate = (Len(rows) % 2 = 0)

\* With hide_empty on, the walk has hidden an hour, drawn a task and then
\* drawn a filler row for a later empty hour.
C4_Witness ==
  /\ pc = "hours" /\ hide_empty
  /\ \E k \in 2..Len(rows) :
       /\ rows[k].kind = "filler" /\ rows[k - 1].kind = "task"
       /\ rows[1].hour > 0

HoursShown == { rows[k].hour : k \in 1..Len(rows) }

FirstTaskHour == CHOOSE h \in NonEmptyHours : \A g \in NonEmptyHours : h <= g

\* C5: when the walk of a tick is over, the hours that have a row are, with
\* hide_empty on, those from the first non-empty bucket through 23 (none when
\* every bucket is empty) and, with hide_empty off, all of 0..23; and at no
\* point of a hide_empty tick is there a row of an hour before the first task.
C5_HoursShown ==
  /\ pc \in {"refresh", "sleep"} =>
       HoursShown = IF ~hide_empty THEN 0..(NumHours - 1)
                    ELSE IF NonEmptyHours = {} THEN {}
                    ELSE FirstTaskHour..(NumHours - 1)
  /\ (InWalk /\ hide_empty) =>
       \A h \in HoursShown : \E g \in NonEmptyHours : g <= h

\* A hide_empty tick whose first task is at 14:00 ended with rows for 14..23.
C5_Witness ==
  /\ pc = "refresh" /\ hide_empty
  /\ HoursShown = 14..23

\* C6: the k-th row emitted in a tick carries the alternation value of its
\* position (the first row the initial value, then alternating), whatever
\* its kind, colour or hour; skipped hours and hour boundaries do not flip.
C6_Alternation ==
  InWalk =>
    /\ \A k \in 1..Len(rows) : rows[k].alt = (k % 2 = 1)
    /\ alternate = (Len(rows) % 2 = 0)

\* After hidden hours, two task rows of one hour and a filler row alternate.
C6_Witness ==
  /\ pc = "hours" /\ hide_empty
  /\ Len(rows) >= 3
  /\ rows[1].kind = "task" /\ rows[1].hour > 0 /\ rows[1].alt
  /\ rows[2].kind = "task" /\ rows[2].hour = rows[1].hour /\ ~rows[2].alt
  /\ rows[3].kind = "filler" /\ rows[3].alt

HeaderTexts == { c.s : c \in header }

\* C7: once the header line is drawn, ID, Time and Description are on it,
\* Project is on it exactly when the project column is shown, and with the
\* project column hidden Description stands in the column of the descriptions.
C7_HeaderRow ==
  (pc = "hours" \/ WalkOver) =>
    /\ {"ID", "Time", "Description"} \subseteq HeaderTexts
    /\ ("Project" \in HeaderTexts) <=> ~hide_projects
    /\ hide_projects =>
         [x |-> GetColumnOffsets(tasks)[4], s |-> "Description"] \in header

\* Rows a tick has to emit: one per task, one per empty hour that is shown.
RowsToEmit ==
  Len(tasks)
  + Cardinality({ h \in 0..(NumHours - 1) :
                    /\ as_dict[h] = <<>>
                    /\ ~hide_empty \/ (\E g \in NonEmptyHours : g < h) })

\* C8: a tick whose provider query failed raises no error out of draw(); it
\* goes on with 24 empty buckets and draws no task row.
C8_ProviderFailureRecovered ==
  provider_failed =>
    /\ pc # "raised"
    /\ InWalk => (NonEmptyHours = {} /\ TaskRows = {})

\* C9: a tick that has at least as many rows to emit as the terminal has
\* lines does not raise: the rows that do not fit are dropped.
C9_TruncatedNotFatal ==
  (InWalk /\ RowsToEmit >= max_y) => pc # "raised"

\* C10: draw() has no exit of its own: it is always somewhere in its loop.
C10_NoInternalExit ==
  pc \in {"getmaxyx", "load", "diff", "headers", "hours", "refresh", "sleep"}

\* The hour-label calls of the k-th row emitted in this tick.
LabelCalls(k) ==
  { rows[k].calls[n] : n \in { m \in 1..Len(rows[k].calls) :
                                 rows[k].calls[m].cell = "label" } }

\* C11: an hour label is drawn in the current-hour colour exactly when its
\* hour is the wall-clock hour at the time its row is drawn, and that is what
\* the window then shows on the row's line; so when a tick that drew all its
\* rows within one wall-clock hour is over, the labels on the window are
\* highlighted exactly for that hour, also when nothing was cleared and an
\* earlier tick had highlighted another hour.
C11_HourHighlight ==
  /\ \A k \in 1..Len(rows) : \A c \in LabelCalls(k) :
       /\ c.s = ToString(rows[k].hour)
       /\ c.color = IF rows[k].hour = Times[rows[k].at] \div 60
                    THEN ColorCurrentHour ELSE ColorHour
       /\ InWalk => /\ screen[rows[k].line].label = c.s
                    /\ screen[rows[k].line].labelColor = c.color
  /\ (pc \in {"refresh", "sleep"} /\ \A k \in 1..Len(rows) : rows[k].at = clock) =>
       \A y \in 1..Len(screen) :
         screen[y].label # "" =>
           ( screen[y].labelColor = ColorCurrentHour
               <=> screen[y].label = ToString(now \div 60) )

\* No clear in this tick; the hour is 15 now and the row of hour 14 has been
\* redrawn without highlight, while the line of hour 15 still shows what the
\* preceding tick drew there when the hour was 14, a label without highlight.
C11_Witness ==
  /\ pc = "hours" /\ clears = 0 /\ now \div 60 = 15
  /\ \E k \in 1..Len(rows) :
       /\ rows[k].hour = 14 /\ rows[k].at = clock
       /\ screen[rows[k].line].label = "14"
       /\ screen[rows[k].line].labelColor = ColorHour
  /\ \E y \in (Len(rows) + 1)..Len(screen) :
       screen[y].label = "15" /\ screen[y].labelColor = ColorHour

\* The calls of the k-th row of this tick that write the given cell.
CellCalls(k, cell) ==
  { rows[k].calls[n] : n \in { m \in 1..Len(rows[k].calls) :
                                 rows[k].calls[m].cell = cell } }

\* The entries of that cell on a line of the window.
CellsOnLine(y, cell) ==
  { screen[y].cells[n] : n \in { m \in 1..Len(screen[y].cells) :
                                   screen[y].cells[m][1] = cell } }

\* C12: every task row writes exactly one time cell, in the time column: the
\* start as HH:MM when the task has no end, and start, "-", end as HH:MM when
\* it has one; the window shows that text and no other.
C12_TimeCell ==
  \A k \in TaskRows :
    LET t == rows[k].task
        text == IF t.end = NoEnd THEN Pad2(t.start \div 60) \o ":" \o Pad2(t.start % 60)
                ELSE Pad2(t.start \div 60) \o ":" \o Pad2(t.start % 60) \o "-"
                     \o Pad2(t.end \div 60) \o ":" \o Pad2(t.end % 60)
    IN /\ Cardinality(CellCalls(k, "time")) = 1
       /\ \A c \in CellCalls(k, "time") :
            c.s = text /\ c.x = GetColumnOffsets(tasks)[3]
       /\ Len(text) = IF t.end = NoEnd THEN 5 ELSE 11
       /\ InWalk => \A e \in CellsOnLine(rows[k].line, "time") : e[3] = text

\* A task without end shows "09:00" and a task with end shows "14:00-14:15".
C12_Witness ==
  /\ \E k \in TaskRows : rows[k].task.end = NoEnd
                         /\ \E c \in CellCalls(k, "time") : c.s = "09:00"
  /\ \E k \in TaskRows : rows[k].task.end # NoEnd
                         /\ \E c \in CellCalls(k, "time") : c.s = "14:00-14:15"

\* C13: a task row writes an id, the task's, exactly when task_id is not 0;
\* glyph, time, description and (unless hidden) project are written for every
\* task alike, and after a row of a task with id 0 its line shows no id.
C13_IdSuppression ==
  \A k \in TaskRows :
    LET t == rows[k].task
    IN /\ (CellCalls(k, "id") # {}) <=> (t.task_id # 0)
       /\ \A c \in CellCalls(k, "id") : c.s = ToString(t.task_id) /\ c.x = 5
       /\ \E c \in CellCalls(k, "glyph") : c.s = t.glyph
       /\ CellCalls(k, "time") # {}
       /\ \E c \in CellCalls(k, "description") : c.s = t.description
       /\ (CellCalls(k, "project") # {}) <=> ~hide_projects
       /\ (InWalk /\ t.task_id = 0) => CellsOnLine(rows[k].line, "id") = {}

\* The task with id 0 was drawn: glyph, time and description, no id.
C13_Witness ==
  \E k \in TaskRows :
    /\ rows[k].task.task_id = 0
    /\ CellCalls(k, "id") = {}
    /\ CellCalls(k, "glyph") # {} /\ CellCalls(k, "time") # {}
    /\ CellCalls(k, "description") # {}
    /\ screen[rows[k].line].glyph = rows[k].task.glyph

\* The order in which draw() passes through the steps of a tick.
StepOrder ==
  { <<"getmaxyx", "load">>, <<"load", "diff">>, <<"diff", "headers">>,
    <<"headers", "hours">>, <<"hours", "refresh">>, <<"refresh", "sleep">>,
    <<"sleep", "getmaxyx">>, <<"headers", "raised">>, <<"hours", "raised">> }

\* C14: the steps of a tick come in the order size, load, compare and clear,
\* headers, rows, refresh, sleep, next tick: the size changes only in the
\* first step and the schedule only in the second, a clear happens only in
\* the comparison, before any header or row of the tick, headers and rows
\* are drawn only after it, the refresh comes once, after the last row, and
\* the sleep after the refresh.
C14_StepOrder ==
  /\ [][ /\ pc' # pc => <<pc, pc'>> \in StepOrder
         /\ (max_y' # max_y \/ max_x' # max_x) => pc = "getmaxyx"
         /\ tasks' # tasks => pc = "load"
         /\ (clears' # clears /\ pc # "getmaxyx") =>
              (pc = "diff" /\ rows = <<>> /\ refreshes = 0)
         /\ header' # header =>
              (pc \in {"diff", "headers"} \/ (pc = "refresh" /\ window' # window))
         /\ screen' # screen =>
              (pc \in {"diff", "headers", "hours"}
                 \/ (pc = "refresh" /\ window' # window))
         /\ (rows' # rows /\ pc # "getmaxyx") => (pc = "hours" /\ refreshes = 0)
         /\ (refreshes' # refreshes /\ pc # "getmaxyx") =>
              (pc = "refresh" /\ i = NumHours /\ refreshes' = 1) ]_vars
  /\ [](pc \in {"load", "diff", "headers"} => (rows = <<>> /\ refreshes = 0))
  /\ [](pc \in {"hours", "refresh", "raised"} => refreshes = 0)
  /\ [](pc = "sleep" => refreshes = 1)

\* A tick that cleared and drew rows has refreshed once and is asleep.
C14_Witness ==
  /\ pc = "sleep" /\ refreshes = 1 /\ clears = 1
  /\ TaskRows # {} /\ Len(rows) > Cardinality(TaskRows)

\* C15: the row of the last task of a bucket is never CURRENT, whatever the
\* time and whatever later buckets hold: it is ACTIVE when the task is
\* active, else OVERDUE when it is overdue and not completed, else COMPLETED
\* or NORMAL in the shade of the row.
C15_LastTaskNeverCurrent ==
  \A k \in TaskRows :
    LET r == rows[k]
    IN r.index + 1 = Len(as_dict[r.hour]) =>
         /\ r.color # ColorCurrent
         /\ r.color = IF r.task.active THEN ColorActive
                      ELSE IF r.is_overdue /\ ~r.task.completed THEN ColorOverdue
                      ELSE ZebraColor(r.task.completed, r.alt)

\* The last task of its bucket has started, is not active, and the next task
\* of the day, in a later bucket, has not started: its row is OVERDUE.
C15_Witness ==
  \E k \in TaskRows :
    LET r == rows[k]
    IN /\ r.index + 1 = Len(as_dict[r.hour])
       /\ \E h \in (r.hour + 1)..(NumHours - 1) :
            /\ as_dict[h] # <<>>
            /\ should_be_active(r.task, as_dict[h][1], Times[r.at])
       /\ r.color = ColorOverdue

\* C16: the rows of a tick are on the lines 1, 2, 3, ... in the order they
\* are emitted, which is hour order and, within an hour, bucket order; all
\* calls of a row address its line, none the header line; the cursor is one
\* past the last row; when the walk is over there is one row per task and
\* the rows are the tasks plus the filler rows.
C16_RowCursor ==
  InWalk =>
    /\ current_line = Len(rows) + 1
    /\ \A k \in 1..Len(rows) :
         /\ rows[k].line = k
         /\ \A n \in 1..Len(rows[k].calls) : rows[k].calls[n].y = k
         /\ rows[k].kind = "task" =>
              rows[k].task = as_dict[rows[k].hour][rows[k].index + 1]
    /\ \A k \in 1..(Len(rows) - 1) :
         \/ rows[k].hour < rows[k + 1].hour
         \/ /\ rows[k].hour = rows[k + 1].hour
            /\ rows[k].kind = "task" /\ rows[k + 1].kind = "task"
            /\ rows[k + 1].index = rows[k].index + 1
    /\ pc \in {"refresh", "sleep"} =>
         /\ Cardinality(TaskRows) = Len(tasks)
         /\ Len(rows) = RowsToEmit

\* A finished walk with a hidden hour, two tasks in one hour and filler rows.
C16_Witness ==
  /\ pc = "refresh" /\ hide_empty
  /\ Len(rows) = 11
  /\ rows[1].hour = 14 /\ rows[2].hour = 14 /\ rows[2].line = 2
  /\ rows[11].kind = "filler" /\ rows[11].line = 11 /\ rows[11].hour = 23

\* Rows of this tick that draw the label of hour h.
LabelledRows(h) ==
  { k \in 1..Len(rows) : rows[k].hour = h /\ LabelCalls(k) # {} }

\* C17: a filler row and the row of the first task of a bucket draw the hour,
\* once, at column 0; the rows of the further tasks of a bucket draw no label
\* and their lines show none; so an hour has at most one label in a tick,
\* and when the walk is over each hour that has rows is labelled on exactly
\* one line of the window and a hidden hour on none.
C17_LabelOnce ==
  /\ \A k \in 1..Len(rows) :
       /\ Cardinality(LabelCalls(k)) =
            IF rows[k].kind = "filler" \/ rows[k].index = 0 THEN 1 ELSE 0
       /\ \A c \in LabelCalls(k) : c.s = ToString(rows[k].hour) /\ c.x = 0
       /\ (InWalk /\ LabelCalls(k) = {}) => screen[rows[k].line].label = ""
  /\ \A h \in 0..(NumHours - 1) : Cardinality(LabelledRows(h)) <= 1
  /\ WalkOver =>
       \A h \in 0..(NumHours - 1) :
         Cardinality({ y \in 1..Len(screen) : screen[y].label = ToString(h) })
           = IF h \in HoursShown THEN 1 ELSE 0

\* A hidden hour, then two tasks of hour 14: the first row is labelled "14",
\* the second has no label.
C17_Witness ==
  /\ pc = "refresh" /\ hide_empty
  /\ Len(rows) >= 3
  /\ rows[1].hour = 14 /\ LabelCalls(1) # {} /\ screen[1].label = "14"
  /\ rows[2].hour = 14 /\ LabelCalls(2) = {} /\ screen[2].label = ""
  /\ rows[3].kind = "filler" /\ screen[3].label = "15"

\* The rows a snapshot calls for under a hide_empty setting, hour by hour:
\* kind and hour of each, from hour h on, given the rows acc of earlier hours.
RECURSIVE LayoutFrom(_, _, _, _)
LayoutFrom(ad, hide, h, acc) ==
  IF h = NumHours THEN acc
  ELSE LET seen == \E k \in 1..Len(acc) : acc[k].kind = "task"
           more == IF ad[h] # <<>>
                   THEN [ k \in 1..Len(ad[h]) |-> [kind |-> "task", hour |-> h] ]
                   ELSE IF seen \/ ~hide
                        THEN << [kind |-> "filler", hour |-> h] >>
                        ELSE <<>>
       IN LayoutFrom(ad, hide, h + 1, acc \o more)

Layout(ad, hide) == LayoutFrom(ad, hide, 0, <<>>)

\* The window after the rows k.. of this tick are drawn on the window scr.
RECURSIVE Redrawn(_, _)
Redrawn(scr, k) ==
  IF k > Len(rows) THEN scr
  ELSE Redrawn(ScreenAfter(scr, rows[k].line, rows[k].calls), k + 1)

\* Lines 1.. of a blank window after the header and the rows of this tick.
DrawnByThisTick == Redrawn(HeaderWraps(<<>>, Written(HeaderCalls)), 1)

\* C18: the rows of a tick, their lines and their alternation values are a
\* function of the tick's snapshot and the hide_empty setting alone, whatever
\* earlier ticks did; so in a tick that skipped the clear the window holds,
\* from the preceding tick, exactly the lines this tick draws (as many of
\* them as the window has lines for, and below the last row at most the
\* text that ran over from it), and when the walk is over the window shows
\* what this tick wrote and nothing else.
C18_LayoutIndependent ==
  InWalk =>
    LET L == Layout(as_dict, hide_empty)
        m == IF Len(L) < max_y THEN Len(L) ELSE max_y - 1
    IN /\ Len(rows) <= Len(L)
       /\ \A k \in 1..Len(rows) :
            /\ rows[k].kind = L[k].kind /\ rows[k].hour = L[k].hour
            /\ rows[k].line = k
            /\ rows[k].alt = (k % 2 = 1)
       /\ clears = 0 =>
            /\ Len(screen) \in {m, m + 1}
            /\ \A y \in (Len(L) + 1)..Len(screen) :
                 screen[y].label = "" /\ screen[y].width = 0
       /\ WalkOver =>
            /\ Len(rows) = Len(L)
            /\ screen = DrawnByThisTick

\* A tick without clear has redrawn some of the lines the preceding tick
\* left on the window, in a hide_empty layout that starts at hour 14.
C18_Witness ==
  /\ pc = "hours" /\ clears = 0 /\ hide_empty
  /\ Len(rows) >= 2 /\ Len(rows) < Len(screen)
  /\ rows[1].kind = "task" /\ rows[1].hour = 14
  /\ screen[Len(screen)].label = "23"

\* The blanks from column 5 to the last column, for each width of a terminal.
FillOfWidth == [ w \in { size[2] : size \in TermSizes } |-> Blanks(w - 5) ]

\* C19 as stated: the size a tick reads at its start is the size the
\* terminal has at that moment, so that after a resize the rows of the next
\* tick span the terminal's new width.
C19_NextTickNewWidth ==
  [][ (pc = "getmaxyx" /\ pc' = "load") => <<max_y', max_x'>> = terminal ]_vars

\* C19, amended: the size a tick reads at its start is the size of the window,
\* and every row of the tick, filler or task, fills from column 5 with blanks
\* up to the width read in this tick, which is then the width of its line on
\* the window, whatever width earlier ticks used. The window changes its
\* size in refresh() only, where it takes the size of the terminal: rows span
\* a new width from the first tick that starts after that refresh.
C19_WidthOfThisTick ==
  /\ [][ /\ (pc = "getmaxyx" /\ pc' = "load") =>
              (<<max_y', max_x'>> = window /\ window' = window)
         /\ window' # window => pc = "refresh"
         /\ (pc = "refresh" /\ pc' = "sleep") => window' = terminal ]_vars
  /\ [](pc \in {"load", "diff", "headers", "hours", "refresh", "raised"}
          => SameWindow)
  /\ [](\A k \in 1..Len(rows) :
          /\ Cardinality(CellCalls(k, "fill")) = 1
          /\ \A c \in CellCalls(k, "fill") :
               /\ c.x = 5
               /\ c.s = FillOfWidth[max_x]
               /\ Len(c.s) = max_x - 5
          /\ InWalk => screen[rows[k].line].width = max_x - 5)

\* A tick read 60 columns and its rows span 60 columns, as did those of the
\* tick before it; the terminal has 80 columns, which the refresh of this
\* tick has given the window, for the tick to come.
C19_Witness ==
  /\ pc = "sleep" /\ clears = 0
  /\ max_x = 60 /\ window = <<30, 80>> /\ terminal = window
  /\ Len(rows) >= 1 /\ Len(screen) = Len(rows)
  /\ \A y \in 1..Len(screen) : screen[y].width = 55
====
